---- MODULE Spec2Model ----
(***************************************************************************)
(* rglua, src/util/mod.rs: the string marshalling macros (cstr!, try_cstr!, *)
(* rstr!, try_rstr!), printgm! and dump_stack.                             *)
(*                                                                         *)
(* Text is modelled as what a Rust String / CString holds: a sequence of   *)
(* bytes.  A native string handle (a const i8 pointer) is modelled by the *)
(* bytes of the memory that starts at the pointer.                        *)
(***************************************************************************)
EXTENDS Integers, Sequences, FiniteSets, TLC

VARIABLES
    proc,      \* "running" | "panicked": a panic (expect) terminates the process
    \* ---- string marshaller -------------------------------------------
    bytes,     \* the runtime value handed to the macros
    cres,      \* outcome of cstr!(bytes)
    tcres,     \* outcome of try_cstr!(bytes)
    back,      \* outcome of rstr!(cstr!(bytes).as_ptr())
    rres,      \* outcome of rstr!(p), p pointing at bytes followed by \0
    trres,     \* outcome of try_rstr!(p)
    tback,     \* outcome of try_rstr!(c.as_ptr()), c the Ok value of try_cstr!(bytes)
    \* ---- stack inspector and printgm ---------------------------------
    stack,     \* the engine's value stack, slot 1 first
    console,   \* what the last operation made the engine print
    printargs, \* the text the last printgm! formatted
    calls,     \* engine functions the last printgm! called, in order, each with
               \* the stack height it left
    pc,        \* "idle" | "loop" | "done": position inside dump_stack
    top,       \* dump_stack's local `top`
    i,         \* dump_stack's loop variable
    buf,       \* dump_stack's local `buf`
    result,    \* what the last dump_stack / printgm! evaluated to
    \* ---- history of the running call ---------------------------------
    stack0,    \* the stack as it was when the last operation was called
    visited,   \* per loop iteration: the index and where its text starts in buf
    wfail,     \* whether a write! of the running dump_stack has failed
    last       \* the last host operation

mvars == <<bytes, cres, tcres, back, rres, trres, tback>>
svars == <<stack, console, printargs, calls, pc, top, i, buf, result, stack0, visited,
           wfail, last>>
vars  == <<proc, bytes, cres, tcres, back, rres, trres, tback, stack, console,
           printargs, calls,
           pc, top, i, buf, result, stack0, visited, wfail, last>>

----------------------------------------------------------------------------
(* Bounds *)

\* longest byte string handed to a marshalling macro
MaxLen == 3
\* deepest value stack
MaxStack == 3

----------------------------------------------------------------------------
(* Outcomes of a call *)

Ok(v)      == [kind |-> "Ok", val |-> v]
Err(e)     == [kind |-> "Err", err |-> e]
Panic(m)   == [kind |-> "Panic", msg |-> m]
NotCalled  == [kind |-> "NotCalled"]

----------------------------------------------------------------------------
(* Bytes.  NUL, 'h', 'i', and the two bytes of U+00E9: 0xC3 0xA9.  Alone,  *)
(* 0xA9 is a stray continuation byte and 0xC3 an unfinished sequence.      *)

ByteVals == {0, 104, 105, 195, 169}

RECURSIVE SeqsUpTo(_, _)
SeqsUpTo(S, n) ==
    IF n = 0 THEN {<< >>}
    ELSE LET shorter == SeqsUpTo(S, n - 1)
         IN  shorter \cup {Append(s, x) : s \in {t \in shorter : Len(t) = n - 1}, x \in S}

ByteStrings == SeqsUpTo(ByteVals, MaxLen)

HasNul(b) == \E k \in 1..Len(b) : b[k] = 0

FirstNul(b) == CHOOSE k \in 1..Len(b) : b[k] = 0 /\ \A j \in 1..(k - 1) : b[j] # 0

----------------------------------------------------------------------------
(* core::str::from_utf8, reached through CStr::to_str *)

IsCont(x) == x >= 128 /\ x <= 191

\* number of bytes of the sequence that starts with lead byte x; 0: no lead
Utf8Width(x) ==
    IF x < 128 THEN 1
    ELSE IF x >= 194 /\ x <= 223 THEN 2
    ELSE IF x >= 224 /\ x <= 239 THEN 3
    ELSE IF x >= 240 /\ x <= 244 THEN 4
    ELSE 0

\* the range the second byte of a sequence must lie in
SecondOk(lead, x) ==
    IF lead = 224 THEN x >= 160 /\ x <= 191
    ELSE IF lead = 237 THEN x >= 128 /\ x <= 159
    ELSE IF lead = 240 THEN x >= 144 /\ x <= 191
    ELSE IF lead = 244 THEN x >= 128 /\ x <= 143
    ELSE IsCont(x)

RECURSIVE Utf8From(_, _)
Utf8From(b, k) ==
    IF k > Len(b) THEN TRUE
    ELSE LET w == Utf8Width(b[k])
         IN  /\ w # 0
             /\ k + w - 1 <= Len(b)
             /\ (w >= 2 => SecondOk(b[k], b[k + 1]))
             /\ \A j \in (k + 2)..(k + w - 1) : IsCont(b[j])
             /\ Utf8From(b, k + w)

Utf8Valid(b) == Utf8From(b, 1)

----------------------------------------------------------------------------
(* std::ffi as the macros use it *)

\* CString::new: the bytes followed by \0, or NulError at the first 0 byte
CStringNew(b) ==
    IF HasNul(b)
    THEN Err([type |-> "NulError", pos |-> FirstNul(b) - 1, bytes |-> b])
    ELSE Ok(b \o <<0>>)

\* CString::as_ptr: the memory at the pointer is the buffer itself
AsPtr(c) == c

\* CStr::from_ptr: the bytes at the pointer up to, not including, the first \0
CStrFromPtrWithNul(mem) == SubSeq(mem, 1, FirstNul(mem))
CStrFromPtr(mem) == SubSeq(mem, 1, FirstNul(mem) - 1)

\* CStr::to_str: the same bytes when they are UTF-8, Utf8Error otherwise
ToStr(b) == IF Utf8Valid(b) THEN Ok(b) ELSE Err([type |-> "Utf8Error"])

\* Result::expect: the value, or a panic with the message
Expect(r, msg) == IF r.kind = "Ok" THEN r ELSE Panic(msg)

----------------------------------------------------------------------------
(* The macros, expression arms *)

cstrAlwaysOk(s) == IF HasNul(s) THEN Ok(<<0>>) ELSE Ok(s \o <<0>>)
cstr(s) == Expect(CStringNew(s), "Couldn't make CString from rust string")

try_cstrTruncating(s) ==
    IF HasNul(s) THEN Ok(SubSeq(s, 1, FirstNul(s))) ELSE Ok(s \o <<0>>)
try_cstr(s) == CStringNew(s)

rstrWithNul(p) == Expect(ToStr(CStrFromPtrWithNul(p)), "Couldn't unwrap CString")
rstrUnchecked(p) == Ok(CStrFromPtr(p))
rstr(p) == Expect(ToStr(CStrFromPtr(p)), "Couldn't unwrap CString")

try_rstr(p) == ToStr(CStrFromPtr(p))

\* the literal arm of cstr! and try_cstr!: concat!(lit, "\0").as_ptr()
cstr_literal(lit) == lit \o <<0>>

\* the memory a native handle to the bytes b points at: b, then the terminator
NativeMem(b) == b \o <<0>>

----------------------------------------------------------------------------
(* The string marshaller, called on a runtime value *)

\* a panic unwinds out of the caller: the process is over
AfterCall(r) == IF r.kind = "Panic" THEN "panicked" ELSE proc

MarshalIdle ==
    /\ bytes = << >>
    /\ cres = NotCalled /\ tcres = NotCalled /\ back = NotCalled
    /\ rres = NotCalled /\ trres = NotCalled /\ tback = NotCalled

StackIdle ==
    /\ stack = << >> /\ console = << >> /\ printargs = << >> /\ calls = << >>
    /\ pc = "idle" /\ top = 0 /\ i = 0 /\ buf = << >>
    /\ result = NotCalled /\ stack0 = << >> /\ visited = << >>
    /\ wfail = FALSE /\ last = "none"

InitMarshal ==
    /\ proc = "running"
    /\ bytes \in ByteStrings
    /\ cres = NotCalled /\ tcres = NotCalled /\ back = NotCalled
    /\ rres = NotCalled /\ trres = NotCalled /\ tback = NotCalled
    /\ StackIdle

\* let c = cstr!(bytes);
CallCstr ==
    /\ proc = "running" /\ cres = NotCalled
    /\ cres' = cstr(bytes)
    /\ proc' = AfterCall(cres')
    /\ UNCHANGED <<bytes, tcres, back, rres, trres, tback, svars>>

\* let c = try_cstr!(bytes);
CallTryCstr ==
    /\ proc = "running" /\ tcres = NotCalled
    /\ tcres' = try_cstr(bytes)
    /\ proc' = AfterCall(tcres')
    /\ UNCHANGED <<bytes, cres, back, rres, trres, tback, svars>>

\* rstr!(c.as_ptr()), c the CString cstr! returned
CallRstrOfCstr ==
    /\ proc = "running" /\ cres.kind = "Ok" /\ back = NotCalled
    /\ back' = rstr(AsPtr(cres.val))
    /\ proc' = AfterCall(back')
    /\ UNCHANGED <<bytes, cres, tcres, rres, trres, tback, svars>>

\* try_rstr!(c.as_ptr()), c the CString try_cstr! returned
CallTryRstrOfTryCstr ==
    /\ proc = "running" /\ tcres.kind = "Ok" /\ tback = NotCalled
    /\ tback' = try_rstr(AsPtr(tcres.val))
    /\ proc' = AfterCall(tback')
    /\ UNCHANGED <<bytes, cres, tcres, back, rres, trres, svars>>

\* rstr!(p), p a native handle to the bytes
CallRstr ==
    /\ proc = "running" /\ rres = NotCalled
    /\ rres' = rstr(NativeMem(bytes))
    /\ proc' = AfterCall(rres')
    /\ UNCHANGED <<bytes, cres, tcres, back, trres, tback, svars>>

\* try_rstr!(p), p a native handle to the bytes
CallTryRstr ==
    /\ proc = "running" /\ trres = NotCalled
    /\ trres' = try_rstr(NativeMem(bytes))
    /\ proc' = AfterCall(trres')
    /\ UNCHANGED <<bytes, cres, tcres, back, rres, tback, svars>>

NextMarshal ==
    \/ CallCstr
    \/ CallTryCstr
    \/ CallRstrOfCstr
    \/ CallTryRstrOfTryCstr
    \/ CallRstr
    \/ CallTryRstr

SpecMarshal == InitMarshal /\ [][NextMarshal]_vars

----------------------------------------------------------------------------
(* Text the formatter produces, as bytes *)

RECURSIVE Digits(_)
Digits(n) == IF n < 10 THEN <<48 + n>> ELSE Append(Digits(n \div 10), 48 + (n % 10))

\* Display of an i32, and of an f64 that holds an integral value: "42", "-7"
FmtNumber(x) == IF x < 0 THEN <<45>> \o Digits(0 - x) ELSE Digits(x)

HexDigit(d) == IF d < 10 THEN 48 + d ELSE 87 + d

RECURSIVE HexDigits(_)
HexDigits(n) ==
    IF n < 16 THEN <<HexDigit(n)>> ELSE Append(HexDigits(n \div 16), HexDigit(n % 16))

\* {:p} of a raw pointer: "0x" and the address in lower-case hex
FmtPointer(a) == <<48, 120>> \o HexDigits(a)

TxtNil      == <<110, 105, 108>>                         \* nil
TxtNone     == <<110, 111, 110, 101>>                    \* none
TxtTrue     == <<116, 114, 117, 101>>                    \* true
TxtFalse    == <<102, 97, 108, 115, 101>>                \* false
TxtPrint    == <<112, 114, 105, 110, 116>>               \* print
NameNoValue  == <<110, 111, 32, 118, 97, 108, 117, 101>>  \* no value
NameNil      == <<110, 105, 108>>                         \* nil
NameBoolean  == <<98, 111, 111, 108, 101, 97, 110>>       \* boolean
NameNumber   == <<110, 117, 109, 98, 101, 114>>           \* number
NameString   == <<115, 116, 114, 105, 110, 103>>          \* string
NameTable    == <<116, 97, 98, 108, 101>>                 \* table
NameFunction == <<102, 117, 110, 99, 116, 105, 111, 110>> \* function
NameUserdata == <<117, 115, 101, 114, 100, 97, 116, 97>>  \* userdata
NameThread   == <<116, 104, 114, 101, 97, 100>>           \* thread

----------------------------------------------------------------------------
(* The engine: the value stack and the accessors dump_stack and printgm!   *)
(* call.  A slot holds a tag and the payload of that tag.  The accessors   *)
(* are the engine's, bound in crate::lua; they are modelled by their       *)
(* documented contract.  All of them only read the stack, except           *)
(* lua_tostring, lua_getglobal, lua_pushstring and lua_call.               *)

Slot(t, n, s, b, a) == [tag |-> t, num |-> n, str |-> s, bool |-> b, addr |-> a]

NumberSlot(n)   == Slot("Number", n, << >>, FALSE, 0)
StringSlot(s)   == Slot("String", 0, s, FALSE, 0)
BoolSlot(b)     == Slot("Bool", 0, << >>, b, 0)
NilSlot         == Slot("Nil", 0, << >>, FALSE, 0)
TableSlot(a)    == Slot("Table", 0, << >>, FALSE, a)
FunctionSlot(a) == Slot("Function", 0, << >>, FALSE, a)
NoSlot          == Slot("None", 0, << >>, FALSE, 0)

\* the slots the host pushes: 42, -7, "hi", a string that is no UTF-8, a
\* string with an embedded \0, true, false, nil, a table, a function
SlotValues ==
    { NumberSlot(42), NumberSlot(0 - 7),
      StringSlot(<<104, 105>>), StringSlot(<<169>>), StringSlot(<<104, 0, 105>>),
      BoolSlot(TRUE), BoolSlot(FALSE), NilSlot,
      TableSlot(16), FunctionSlot(255) }

\* the global `print`
PrintGlobal == FunctionSlot(171)

At(st, k) == IF k \in 1..Len(st) THEN st[k] ELSE NoSlot

lua_gettop(st) == Len(st)

lua_type(st, k) == At(st, k).tag

TypeName(t) ==
    CASE t = "None"     -> NameNoValue
      [] t = "Nil"      -> NameNil
      [] t = "Bool"     -> NameBoolean
      [] t = "Number"   -> NameNumber
      [] t = "String"   -> NameString
      [] t = "Table"    -> NameTable
      [] t = "Function" -> NameFunction
      [] t = "UserData" -> NameUserdata
      [] OTHER          -> NameThread

\* a handle to the name of the slot's type
luaL_typename(st, k) == NativeMem(TypeName(lua_type(st, k)))

lua_tonumber(st, k) == At(st, k).num

lua_toboolean(st, k) ==
    IF At(st, k).tag \in {"Nil", "None"} \/ (At(st, k).tag = "Bool" /\ ~At(st, k).bool)
    THEN 0 ELSE 1

lua_topointer(st, k) == At(st, k).addr

\* lua_tostring returns a handle to the string's bytes; a number slot is
\* first converted to a string IN THE STACK.
lua_tostring(st, k) ==
    LET s == At(st, k)
    IN  IF s.tag = "String" THEN [ret |-> NativeMem(s.str), st |-> st]
        ELSE IF s.tag = "Number"
        THEN [ret |-> NativeMem(FmtNumber(s.num)),
              st  |-> [st EXCEPT ![k] = StringSlot(FmtNumber(s.num))]]
        ELSE [ret |-> <<0>>, st |-> st]

\* lua_getglobal(L, name) pushes the global of that name, nil when there is none
lua_getglobal(st, name) ==
    Append(st, IF CStrFromPtr(name) = TxtPrint THEN PrintGlobal ELSE NilSlot)

\* lua_pushstring copies the bytes at the handle up to the terminator
lua_pushstring(st, p) == Append(st, StringSlot(CStrFromPtr(p)))

\* lua_call(L, nargs, nresults) on `print`: pops the function and its
\* arguments, prints the arguments, pushes nresults values (print returns
\* none, so they are nil)
lua_call(st, nargs, nresults) ==
    LET base == Len(st) - nargs - 1
    IN  [st  |-> SubSeq(st, 1, base) \o [k \in 1..nresults |-> NilSlot],
         out |-> [k \in 1..nargs |-> st[base + 1 + k].str]]

----------------------------------------------------------------------------
(* printgm!: the block after format! has produced printargs *)

Called(fn, st) == [fn |-> fn, height |-> Len(st)]

printgmKeepsResult(st, args) ==
    LET fmt == CStringNew(args)
    IN  IF fmt.kind = "Ok"
        THEN LET s1 == lua_getglobal(st, cstr_literal(TxtPrint))
                 s2 == lua_pushstring(s1, AsPtr(fmt.val))
                 c  == lua_call(s2, 1, 1)
             IN  [st |-> c.st, out |-> c.out,
                  calls |-> <<Called("lua_getglobal", s1), Called("lua_pushstring", s2),
                              Called("lua_call", c.st)>>]
        ELSE [st |-> st, out |-> << >>, calls |-> << >>]
printgm(st, args) ==
    LET fmt == CStringNew(args)
    IN  IF fmt.kind = "Ok"
        THEN LET s1 == lua_getglobal(st, cstr_literal(TxtPrint))
                 s2 == lua_pushstring(s1, AsPtr(fmt.val))
                 c  == lua_call(s2, 1, 0)
             IN  [st |-> c.st, out |-> c.out,
                  calls |-> <<Called("lua_getglobal", s1), Called("lua_pushstring", s2),
                              Called("lua_call", c.st)>>]
        ELSE [st |-> st, out |-> << >>, calls |-> << >>]

----------------------------------------------------------------------------
(* dump_stack *)

\* write!(&mut buf, ...): the text is appended, or the write fails and
\* appends nothing
WriteFmt(b, text, ok) ==
    IF ok THEN [buf |-> b \o text, res |-> Ok("()")]
    ELSE [buf |-> b, res |-> Err("fmt::Error")]

\* for i in 1..=top
InRangeExclusive(k, n) == k < n
InRange(k, n) == k <= n

\* "[{}] '{}' = "
Prefix(k, name) == <<91>> \o FmtNumber(k) \o <<93, 32, 39>> \o name \o <<39, 32, 61, 32>>

\* match lua_type(l, i) { ... }: the text of the arm's argument (or the panic
\* of rstr!) and the stack the arm's accessor leaves
MatchArmTostring(st, k) ==
    LET t == lua_type(st, k)
    IN  IF t \in {"Number", "String"}
        THEN [text |-> rstr(lua_tostring(st, k).ret), st |-> lua_tostring(st, k).st]
        ELSE IF t = "Bool"
        THEN [text |-> Ok(IF lua_toboolean(st, k) = 1 THEN TxtTrue ELSE TxtFalse), st |-> st]
        ELSE IF t = "Nil" THEN [text |-> Ok(TxtNil), st |-> st]
        ELSE IF t = "None" THEN [text |-> Ok(TxtNone), st |-> st]
        ELSE [text |-> Ok(FmtPointer(lua_topointer(st, k))), st |-> st]
MatchArmNoNil(st, k) ==
    LET t == lua_type(st, k)
    IN  IF t = "Number" THEN [text |-> Ok(FmtNumber(lua_tonumber(st, k))), st |-> st]
        ELSE IF t = "String"
        THEN [text |-> rstr(lua_tostring(st, k).ret), st |-> lua_tostring(st, k).st]
        ELSE IF t = "Bool"
        THEN [text |-> Ok(IF lua_toboolean(st, k) = 1 THEN TxtTrue ELSE TxtFalse), st |-> st]
        ELSE [text |-> Ok(FmtPointer(lua_topointer(st, k))), st |-> st]
MatchArm(st, k) ==
    LET t == lua_type(st, k)
    IN  IF t = "Number" THEN [text |-> Ok(FmtNumber(lua_tonumber(st, k))), st |-> st]
        ELSE IF t = "String"
        THEN [text |-> rstr(lua_tostring(st, k).ret), st |-> lua_tostring(st, k).st]
        ELSE IF t = "Bool"
        THEN [text |-> Ok(IF lua_toboolean(st, k) = 1 THEN TxtTrue ELSE TxtFalse), st |-> st]
        ELSE IF t = "Nil" THEN [text |-> Ok(TxtNil), st |-> st]
        ELSE IF t = "None" THEN [text |-> Ok(TxtNone), st |-> st]
        ELSE [text |-> Ok(FmtPointer(lua_topointer(st, k))), st |-> st]

----------------------------------------------------------------------------
(* The host: it pushes and pops values, prints, and dumps the stack.  The  *)
(* host serialises access to the handle: nothing runs while dump_stack is  *)
(* in its loop.                                                            *)

Msgs == { <<104, 105>>, <<104, 0, 105>>, <<195, 169>> }

Init ==
    /\ proc = "running"
    /\ MarshalIdle
    /\ StackIdle

HostTurn == proc = "running" /\ pc # "loop"

\* the locals and the return value of an earlier dump_stack are gone
DumpLocalsDropped ==
    /\ pc' = "idle" /\ top' = 0 /\ i' = 0 /\ buf' = << >>
    /\ visited' = << >> /\ wfail' = FALSE

Push(v) ==
    /\ HostTurn /\ Len(stack) < MaxStack
    /\ stack' = Append(stack, v)
    /\ stack0' = stack /\ last' = "push"
    /\ console' = << >> /\ printargs' = << >> /\ calls' = << >>
    /\ result' = NotCalled
    /\ DumpLocalsDropped
    /\ UNCHANGED <<proc, mvars>>

Pop ==
    /\ HostTurn /\ Len(stack) > 0
    /\ stack' = SubSeq(stack, 1, Len(stack) - 1)
    /\ stack0' = stack /\ last' = "pop"
    /\ console' = << >> /\ printargs' = << >> /\ calls' = << >>
    /\ result' = NotCalled
    /\ DumpLocalsDropped
    /\ UNCHANGED <<proc, mvars>>

\* printgm!(l, ...), the arguments formatting to msg
Printgm(msg) ==
    /\ HostTurn
    /\ LET r == printgm(stack, msg)
       IN  /\ stack' = r.st
           /\ console' = r.out
           /\ calls' = r.calls
    /\ printargs' = msg
    /\ result' = Ok("()")
    /\ stack0' = stack /\ last' = "printgm"
    /\ DumpLocalsDropped
    /\ UNCHANGED <<proc, mvars>>

\* dump_stack(l) up to the loop
DumpBegin ==
    /\ HostTurn
    /\ buf' = << >>
    /\ top' = lua_gettop(stack)
    /\ i' = 1
    /\ pc' = "loop"
    /\ stack0' = stack /\ last' = "dump_stack"
    /\ visited' = << >> /\ wfail' = FALSE
    /\ console' = << >> /\ printargs' = << >> /\ calls' = << >>
    /\ result' = NotCalled
    /\ UNCHANGED <<proc, stack, mvars>>

\* one iteration of the loop; okPrefix and okValue are the outcomes of its
\* two write! calls
DumpSlot(okPrefix, okValue) ==
    /\ proc = "running" /\ pc = "loop" /\ InRange(i, top)
    /\ LET name == rstr(luaL_typename(stack, i))
           w1   == WriteFmt(buf, Prefix(i, name.val), okPrefix)
           arm  == MatchArm(stack, i)
           w2   == WriteFmt(w1.buf, arm.text.val, okValue)
       IN  /\ visited' = Append(visited, [idx |-> i, at |-> Len(buf) + 1])
           /\ IF name.kind = "Panic"
              THEN \* rstr! of the type name panicked: nothing written
                   /\ proc' = "panicked"
                   /\ result' = name
                   /\ UNCHANGED <<stack, buf, wfail, pc, i>>
              ELSE IF arm.text.kind = "Panic"
              THEN \* rstr! of the string slot panicked, the prefix written
                   /\ proc' = "panicked"
                   /\ result' = arm.text
                   /\ stack' = arm.st
                   /\ buf' = w1.buf
                   /\ wfail' = (wfail \/ ~okPrefix)
                   /\ UNCHANGED <<pc, i>>
              ELSE IF w2.res.kind = "Err"
              THEN \* `?` returns the error of the arm's write!
                   /\ result' = w2.res
                   /\ pc' = "done"
                   /\ stack' = arm.st
                   /\ buf' = w2.buf
                   /\ wfail' = TRUE
                   /\ UNCHANGED <<proc, i>>
              ELSE \* the outcome of the first write! is dropped
                   /\ buf' = w2.buf
                   /\ stack' = arm.st
                   /\ i' = i + 1
                   /\ wfail' = (wfail \/ ~okPrefix)
                   /\ UNCHANGED <<proc, pc, result>>
    /\ UNCHANGED <<top, console, printargs, calls, stack0, last, mvars>>

\* Ok(buf)
DumpReturn ==
    /\ proc = "running" /\ pc = "loop" /\ ~InRange(i, top)
    /\ result' = Ok(buf)
    /\ pc' = "done"
    /\ UNCHANGED <<proc, stack, console, printargs, calls, top, i, buf, stack0, visited,
                   wfail, last, mvars>>

\* String's fmt::Write never fails and neither do the Display and Pointer
\* implementations of the arguments: every write! of dump_stack succeeds.
Next ==
    \/ \E v \in SlotValues : Push(v)
    \/ Pop
    \/ \E m \in Msgs : Printgm(m)
    \/ DumpBegin
    \/ DumpSlot(TRUE, TRUE)
    \/ DumpReturn

Spec == Init /\ [][Next]_vars

\* The same program over a formatter whose writes can fail, the case the
\* Result<String, fmt::Error> of dump_stack and the `?` of line 169 are
\* written for.  Every behaviour of Spec is a behaviour of SpecFault.
NextFault ==
    \/ \E v \in SlotValues : Push(v)
    \/ Pop
    \/ \E m \in Msgs : Printgm(m)
    \/ DumpBegin
    \/ \E okPrefix, okValue \in BOOLEAN : DumpSlot(okPrefix, okValue)
    \/ DumpReturn

SpecFault == Init /\ [][NextFault]_vars

----------------------------------------------------------------------------
(* Claims about the string marshaller, checked under SpecMarshal *)

IsText(b) == Utf8Valid(b)

\* C1: a text without a null byte, converted by cstr! / try_cstr! and read
\* back by rstr! / try_rstr!, comes back as the same text.
C1_RoundTrip ==
    (IsText(bytes) /\ ~HasNul(bytes)) =>
        /\ cres # NotCalled => cres.kind = "Ok"
        /\ back # NotCalled => back = Ok(bytes)
        /\ tcres # NotCalled => tcres.kind = "Ok"
        /\ tback # NotCalled => tback = Ok(bytes)

C1_Witness ==
    /\ bytes = <<104, 195, 169>>
    /\ back = Ok(bytes)
    /\ tback = Ok(bytes)

\* C2: try_cstr! on a text with a null byte returns the NulError failure: no
\* panic, no buffer in the result; on a text without one it returns the owned
\* buffer, the text followed by the terminator.
C2_TryCstrReportsNul ==
    (IsText(bytes) /\ tcres # NotCalled) =>
        /\ HasNul(bytes) =>
              /\ tcres.kind = "Err"
              /\ tcres.err.type = "NulError"
              /\ "val" \notin DOMAIN tcres
        /\ ~HasNul(bytes) => tcres = Ok(bytes \o <<0>>)
        /\ (cres = NotCalled /\ back = NotCalled /\ rres = NotCalled)
              => proc = "running"

C2_Witness ==
    /\ bytes = <<104, 0, 105>>
    /\ tcres.kind = "Err"
    /\ proc = "running"

\* C8: cstr! panics exactly when try_cstr! fails and otherwise yields the
\* buffer try_cstr! yields; rstr! panics exactly when try_rstr! fails and
\* otherwise yields the text try_rstr! yields.
C8_InfallibleAgreesWithFallible ==
    /\ (cres # NotCalled /\ tcres # NotCalled) =>
          /\ cres.kind = "Panic" <=> tcres.kind = "Err"
          /\ cres.kind = "Ok" <=> tcres.kind = "Ok"
          /\ tcres.kind = "Ok" => cres.val = tcres.val
    /\ (rres # NotCalled /\ trres # NotCalled) =>
          /\ rres.kind = "Panic" <=> trres.kind = "Err"
          /\ rres.kind = "Ok" <=> trres.kind = "Ok"
          /\ trres.kind = "Ok" => rres.val = trres.val

C8_Witness ==
    /\ tcres.kind = "Ok" /\ cres = tcres
    /\ trres.kind = "Err" /\ rres.kind = "Panic"

----------------------------------------------------------------------------
(* Claims about dump_stack and printgm! *)

Dumped == last = "dump_stack" /\ pc = "done" /\ result.kind = "Ok"

\* where the text of entry k ends in the returned text
EntryEnd(k) == IF k < Len(visited) THEN visited[k + 1].at - 1 ELSE Len(result.val)

PrefixOf(k) == Prefix(k, TypeName(stack0[k].tag))

\* the bytes of a string slot up to its first \0: what a C reader sees
CText(s) == IF HasNul(s) THEN SubSeq(s, 1, FirstNul(s) - 1) ELSE s

\* C3: from its call to its return, with Ok, with Err or by a panic,
\* dump_stack leaves the stack as it found it.
C3_StackUnchanged == last = "dump_stack" => stack = stack0

C3_Witness ==
    /\ Dumped
    /\ Len(stack) = 3
    /\ stack[1].tag = "Number" /\ stack[2].tag = "String" /\ stack[3].tag = "Bool"

\* C4: every entry of the returned text ends in a line break, so a stack of n
\* slots is returned as n lines.
C4_LineBreakAfterEachSlot ==
    Dumped =>
        \* 10 is the line break
        /\ \A k \in 1..Len(visited) : result.val[EntryEnd(k)] = 10
        /\ Cardinality({k \in 1..Len(result.val) : result.val[k] = 10}) = top

\* C5: the returned text has one entry per index 1..top, in ascending order,
\* each starting with [<index>] '<type-name>' = ; no other index is visited;
\* an empty stack gives the empty text.
C5_EveryIndexOnceAscending ==
    last = "dump_stack" =>
        /\ \A k \in 1..Len(visited) : visited[k].idx = k /\ k <= Len(stack0)
        /\ Dumped =>
              /\ Len(visited) = Len(stack0)
              /\ \A k \in 1..Len(visited) :
                    /\ visited[k].at = IF k = 1 THEN 1 ELSE EntryEnd(k - 1) + 1
                    /\ EntryEnd(k) >= visited[k].at + Len(PrefixOf(k)) - 1
                    /\ SubSeq(result.val, visited[k].at,
                              visited[k].at + Len(PrefixOf(k)) - 1) = PrefixOf(k)
              /\ Len(stack0) = 0 => result.val = << >>

C5_Witness ==
    /\ Dumped
    /\ Len(stack0) = 3
    /\ stack0[1] = NumberSlot(42) /\ stack0[2] = StringSlot(<<104, 105>>)
    /\ stack0[3] = BoolSlot(TRUE)

C5_WitnessEmpty == Dumped /\ Len(stack0) = 0 /\ result.val = << >>

\* the value text the rendering rules give a slot, by its tag
ExpectedValue(s) ==
    CASE s.tag = "Number" -> FmtNumber(s.num)
      [] s.tag = "String" -> CText(s.str)
      [] s.tag = "Bool"   -> IF s.bool THEN TxtTrue ELSE TxtFalse
      [] s.tag = "Nil"    -> TxtNil
      [] s.tag = "None"   -> TxtNone
      [] OTHER            -> FmtPointer(s.addr)

BadString(s) == s.tag = "String" /\ ~Utf8Valid(CText(s.str))

\* C9: a string slot that is no UTF-8 ends dump_stack in the panic of rstr!,
\* at that slot; the only error dump_stack returns is fmt::Error.
C9_BadStringPanics ==
    last = "dump_stack" =>
        /\ \A k \in 1..Len(visited) :
              BadString(stack0[k]) =>
                  /\ proc = "panicked"
                  /\ result = Panic("Couldn't unwrap CString")
                  /\ k = Len(visited)
        /\ result.kind = "Err" => result.err = "fmt::Error"
        /\ result.kind \in {"NotCalled", "Ok", "Err", "Panic"}

C9_Witness ==
    /\ last = "dump_stack"
    /\ proc = "panicked"
    /\ Len(visited) = 2
    /\ stack0[1].tag = "Number" /\ BadString(stack0[2])

\* C10: printgm! leaves the stack as high as it found it.  A message without a
\* null byte is printed by lua_getglobal (one push), lua_pushstring (one
\* push), lua_call(1, 0), in this order; a message with a null byte makes no
\* engine call and prints nothing; the caller gets () either way.
C10_PrintgmStackNeutral ==
    last = "printgm" =>
        /\ result = Ok("()")
        /\ proc = "running"
        /\ stack = stack0
        /\ IF HasNul(printargs)
           THEN calls = << >> /\ console = << >>
           ELSE /\ calls = << [fn |-> "lua_getglobal",  height |-> Len(stack0) + 1],
                              [fn |-> "lua_pushstring", height |-> Len(stack0) + 2],
                              [fn |-> "lua_call",       height |-> Len(stack0)] >>
                /\ console = <<printargs>>

C10_Witness ==
    /\ last = "printgm" /\ printargs = <<195, 169>>
    /\ Len(stack) = 2 /\ console = <<printargs>>

C10_WitnessNul ==
    /\ last = "printgm" /\ HasNul(printargs)
    /\ Len(stack) = 2 /\ calls = << >>

=============================================================================
